---- MODULE Spec2Model ----
(***************************************************************************)
(* Model of cass_select_task_rq_fair (kernel/sched/cass.c), the runqueue   *)
(* selection of the Capacity Aware Superset Scheduler.                     *)
(*                                                                         *)
(* One call is executed step by step (pc), each step being a block of the  *)
(* function.  The functions the call consults outside cass.c (wake_wide,   *)
(* wake_affine_idle, select_idle_sibling, task_h_load, the PF_EXITING and  *)
(* on-rq reads) are answered nondeterministically the first time they are  *)
(* asked and keep that answer afterwards: the answer is a set, empty while *)
(* the question was never asked.  The per-CPU loads are read the same way: *)
(* a CPU's load is chosen when a call first reads it and stays.  Spec is   *)
(* one call; under SpecTwice the call, once returned, is made a second     *)
(* time with the same arguments, the same system state and the same        *)
(* answers, so that two identical calls can be compared.                   *)
(***************************************************************************)
EXTENDS Integers, Sequences, FiniteSets, TLC

\* ------------------------------------------------------------ bounds ----
NrCpus == 3
MaxLoad == 1

\* --------------------------------------------------------- constants ----
nr_cpumask_bits == NrCpus
AllCpus == 0 .. (NrCpus - 1)

\* flag masks are sets of bit names; a & b is non-zero iff the sets meet
SD_BALANCE_WAKE == {"SD_BALANCE_WAKE"}
SD_BALANCE_FORK == {"SD_BALANCE_FORK"}
SD_BALANCE_EXEC == {"SD_BALANCE_EXEC"}
wf_SYNC == {"WF_SYNC"}
wf_FORK == {"WF_FORK"}
\* #define WF_TTWU (0): the mask without bits (WF_ is reserved in TLA+)
wf_TTWU == {}
And(a, b) == (a \cap b) # {}

\* int sd_flag, int wake_flags: sd_flag names the kind of balancing, and
\* wake_flags is any combination of the bits the function tests
CallFlags ==
    {SD_BALANCE_WAKE, SD_BALANCE_FORK, SD_BALANCE_EXEC}
    \X {{}, wf_SYNC, wf_FORK, wf_SYNC \cup wf_FORK}

\* oom_score_adj values around the two edges of the tested range
AdjValues == {0 - 1, 0, 224, 225}

\* the loads are unsigned long, 64 bits wide: no sum of two loads the model
\* holds comes near 2^64, so the additions are the integers' and the one
\* subtraction is lsub_positive's
Loads == 0 .. MaxLoad

\* the width of the unsigned long that holds the bits of struct cpumask
BITS_PER_LONG == 64

\* values an uninitialized int may hold: a CPU id, the id just past the
\* mask, and values far outside it up to both ends of int
GarbageCpus ==
    (0 .. NrCpus) \cup {100000, 2147483647, 0 - 2147483647 - 1}

VARIABLES
    cpu_lp_mask,   \* the low-power cluster
    cpu_perf_mask, \* the performance cluster
    online,        \* cpu_online_mask
    load_avg,      \* cpu_rq(cpu)->cfs.avg.load_avg, per CPU ({} until read)
    pc,            \* position of the call
    round,         \* 0 before the first call, then 1 and 2
    adj,           \* p->signal->oom_score_adj
    prev_cpu, sd_flag, wake_flags,   \* arguments
    this_cpu,      \* smp_processor_id()
    exiting_ans,   \* current->flags & PF_EXITING
    queued_ans,    \* task_on_rq_queued(p) || current == p
    wide_ans,      \* wake_wide(p, sibling_count_hint)
    wa_ans,        \* wake_affine_idle(this_cpu, prev_cpu, sync)
    sis_ans,       \* select_idle_sibling(p, prev_cpu, wa_cpu)
    p_load_ans,    \* task_h_load(p)
    cur_load_ans,  \* task_h_load(current)
    sync, p_queued, want_affine, cidx, cpu, p_load, cpus, cands, best,
    calls,         \* the external calls made so far by this call, in order
    reads,         \* the CPUs whose load this call has read, in order
    ret,           \* the value returned (meaningful when pc = "done")
    first_ret,     \* the value the first call returned (round = 2)
    conc           \* the calls running at once on different CPUs, one record each

args == <<adj, prev_cpu, sd_flag, wake_flags, this_cpu>>
answers == <<exiting_ans, queued_ans, wide_ans, wa_ans, sis_ans, p_load_ans, cur_load_ans>>
locals == <<sync, p_queued, want_affine, cidx, cpu, p_load, cpus, cands, best>>
world == <<cpu_lp_mask, cpu_perf_mask, online, load_avg>>
vars == <<world, pc, round, args, answers, locals, calls, reads, ret, first_ret, conc>>

\* an answer not yet given may be any value of dom; a given one is kept
Ask(ans, dom) == IF ans = {} THEN dom ELSE ans
The(ans) == CHOOSE a \in ans : TRUE

Min(a, b) == IF a < b THEN a ELSE b

\* a subtraction that does not saturate: it goes below zero
lsub_positive_plain(load, val) == load - val

\* lines 32-35: *ptr -= min_t(typeof(*ptr), *ptr, _val)
lsub_positive(load, val) == load - Min(load, val)

\* the upper edge of the range one too low
asym_cpus_edge(a) == IF a > 0 - 1 /\ a < 224 THEN cpu_perf_mask ELSE cpu_lp_mask

\* line 59: the tier mask chosen from the importance hint
asym_cpus(a) == IF a > 0 - 1 /\ a < 225 THEN cpu_perf_mask ELSE cpu_lp_mask

\* no cpumask_copy when the intersection is empty
tier_cpus_nofallback(a, on) == on \cap asym_cpus(a)

\* lines 60-61: cpumask_and, and cpumask_copy when the result is empty
tier_cpus(a, on) ==
    LET both == on \cap asym_cpus(a)
    IN  IF both = {} THEN on ELSE both

\* the bit of CPU c in mask; the bits of the word past nr_cpumask_bits
\* are clear
cpumask_test_cpu(c, mask) == c \in mask

\* line 72 for whatever value c the local cpu holds: the test reads bit c
\* counted from the start of the mask, inside the mask's word or in the
\* memory that lies before or after it
cpumask_test_cpu_read(c, mask) ==
    IF c \in 0 .. (BITS_PER_LONG - 1) THEN {cpumask_test_cpu(c, mask)}
                                      ELSE BOOLEAN

\* the read leaves the mask and may touch memory that is not mapped
cpumask_test_cpu_faults(c) == c \notin 0 .. (BITS_PER_LONG - 1)

\* the search starts one bit too far
cpumask_next_skip(n, mask) ==
    IF \E c \in mask : c > n + 1
    THEN CHOOSE c \in mask : c > n + 1 /\ \A d \in mask : d > n + 1 => c <= d
    ELSE nr_cpumask_bits

\* the next CPU of mask after n, nr_cpumask_bits when there is none
cpumask_next(n, mask) ==
    IF \E c \in mask : c > n
    THEN CHOOSE c \in mask : c > n /\ \A d \in mask : d > n => c <= d
    ELSE nr_cpumask_bits

\* lines 71-72: !wake_wide(p, sibling_count_hint) && cpumask_test_cpu(cpu, &cpus)
\* w is wake_wide's answer, t what the test of the local cpu gave
affine_wanted(w, t) == ~w /\ t

\* the sync branch adds the task's load on its previous CPU too
projected_load_syncprev(c, base, sy, pq, pl, prev, this, wl) ==
    IF sy
    THEN LET a == base + pl
         IN  IF c = this THEN lsub_positive(a, wl) ELSE a
    ELSE LET a == IF pq /\ c # prev THEN base + pl ELSE base
         IN  IF ~pq THEN a + pl ELSE a

\* the previous CPU is exempted whether or not the task is queued
projected_load_exempt(c, base, sy, pq, pl, prev, this, wl) ==
    IF sy
    THEN LET a == IF c # prev THEN base + pl ELSE base
         IN  IF c = this THEN lsub_positive(a, wl) ELSE a
    ELSE IF c # prev THEN base + pl ELSE base

\* lines 109-127: the load of candidate c with the task accounted for;
\* base is the CPU's load, wl the load of the waker (task_h_load(current))
projected_load(c, base, sy, pq, pl, prev, this, wl) ==
    IF sy
    THEN LET a == IF c # prev THEN base + pl ELSE base
         IN  IF c = this THEN lsub_positive(a, wl) ELSE a
    ELSE LET a == IF pq /\ c # prev THEN base + pl ELSE base
         IN  IF ~pq THEN a + pl ELSE a

\* line 66: the call is a wakeup
is_wakeup(sd, wf) == And(sd, SD_BALANCE_WAKE) \/ And(wf, wf_TTWU)

\* the answer is used without the test for the sentinel
idle_found_always(wa_cpu) == TRUE

\* the sentinel taken to be the last CPU id
idle_found_last(wa_cpu) == wa_cpu # nr_cpumask_bits - 1

\* line 77: wake_affine_idle answered a CPU
idle_found(wa_cpu) == wa_cpu # nr_cpumask_bits

\* line 85: the call is not a task creation
not_fork(sd, wf) == ~And(sd, SD_BALANCE_FORK) /\ ~And(wf, wf_FORK)

\* the sync wake is never invalidated
sync_and_kept(sy, wanted) == sy

\* line 93: sync &= want_affine
sync_and(sy, wanted) == sy /\ wanted

\* the index is not toggled
cidx_xor1_kept(i) == i

\* line 136: cidx ^= 1
cidx_xor1(i) == 1 - i

\* the comparison turned round: a more loaded candidate wins
cand_better_greater(bestIdx, currIdx, currLoad, bestLoad) ==
    bestIdx = currIdx \/ currLoad >= bestLoad

\* < in place of <=
cand_better_strict(bestIdx, currIdx, currLoad, bestLoad) ==
    bestIdx = currIdx \/ currLoad < bestLoad

\* line 134: curr replaces best
cand_better(bestIdx, currIdx, currLoad, bestLoad) ==
    bestIdx = currIdx \/ currLoad <= bestLoad

\* answers of the code outside cass.c: wake_affine_idle gives a CPU or the
\* sentinel, select_idle_sibling gives a CPU, online or not
wake_affine_idle_range == 0 .. nr_cpumask_bits
select_idle_sibling_range == AllCpus

NoCand == [set |-> FALSE, cpu |-> 0, load |-> 0]

\* two invocations in flight at once, each on its own CPU for its own task
Callers == {1, 2}
OtherCaller(t) == 3 - t

\* wake_up_new_task places a new task with SD_BALANCE_FORK and no wake flag
ForkCall == <<SD_BALANCE_FORK, {}>>

\* one oom_score_adj for each tier
ConcAdj == {0, 225}

\* the locals of an invocation that has not been entered
IdleCaller ==
    [pc |-> "idle", this_cpu |-> 0, prev_cpu |-> 0, adj |-> 0,
     sync |-> FALSE, p_queued |-> FALSE, p_load |-> 0, cpus |-> {},
     cpu |-> 0 - 1, cands |-> [i \in {0, 1} |-> NoCand], best |-> 0,
     cidx |-> 0, ret |-> 0, overlapped |-> FALSE]

\* the platform's clusters: the lp lowest CPU ids are the low-power ones,
\* none of the CPUs or all but two of them
Init ==
    /\ \E lp \in {0, NrCpus - 2} :
         /\ cpu_lp_mask = 0 .. (lp - 1)
         /\ cpu_perf_mask = lp .. (NrCpus - 1)
    /\ online \in (SUBSET AllCpus) \ {{}}
    /\ load_avg = [c \in AllCpus |-> {}]
    /\ pc = "idle"
    /\ round = 0
    /\ adj = 0 /\ prev_cpu = 0 /\ sd_flag = {} /\ wake_flags = {} /\ this_cpu = 0
    /\ exiting_ans = {} /\ queued_ans = {} /\ wide_ans = {} /\ wa_ans = {}
    /\ sis_ans = {} /\ p_load_ans = {} /\ cur_load_ans = {}
    /\ sync = FALSE /\ p_queued = FALSE /\ want_affine = FALSE
    /\ cidx = 0 /\ cpu = 0 - 1 /\ p_load = 0 /\ cpus = {}
    /\ cands = [i \in {0, 1} |-> NoCand] /\ best = 0
    /\ calls = << >> /\ reads = << >>
    /\ ret = 0 /\ first_ret = 0
    /\ conc = [t \in Callers |-> IdleCaller]

\* lines 45-49: the declarations with initializers
Entry ==
    /\ \E ex \in Ask(exiting_ans, BOOLEAN), q \in Ask(queued_ans, BOOLEAN) :
         /\ exiting_ans' = (IF And(wake_flags', wf_SYNC) THEN {ex} ELSE exiting_ans)
         /\ queued_ans' = {q}
         /\ sync' = (And(wake_flags', wf_SYNC) /\ ~ex)
         /\ p_queued' = q
    /\ want_affine' = FALSE
    /\ cidx' = 0
    /\ p_load' = 0
    /\ best' = 0
    /\ cands' = [i \in {0, 1} |-> NoCand]
    /\ cpu' = 0 - 1
    /\ cpus' = {}
    /\ calls' = << >>
    /\ reads' = << >>
    /\ pc' = "partition"

\* the scheduler core invokes the function
Call ==
    /\ pc = "idle"
    /\ round' = 1
    /\ adj' \in AdjValues
    /\ prev_cpu' \in AllCpus
    /\ \E f \in CallFlags : sd_flag' = f[1] /\ wake_flags' = f[2]
    /\ this_cpu' \in online
    /\ Entry
    /\ UNCHANGED <<world, wide_ans, wa_ans, sis_ans, p_load_ans, cur_load_ans, ret, first_ret, conc>>

\* lines 58-61
Partition ==
    /\ pc = "partition"
    /\ cpus' = tier_cpus(adj, online)
    /\ pc' = "fastpath"
    /\ UNCHANGED <<world, round, args, answers, sync, p_queued, want_affine,
                   cidx, cpu, p_load, cands, best, calls, reads, ret, first_ret, conc>>

\* lines 66-79: the stock wake_affine idle path.  The local cpu is read at
\* line 72 before anything was assigned to it: g is the value it holds.
\* When wake_wide answered no the test is evaluated; with g outside the
\* mask's word the read may fault, and the call then never returns.
FastPath ==
    /\ pc = "fastpath"
    /\ IF is_wakeup(sd_flag, wake_flags)
       THEN \E w \in Ask(wide_ans, BOOLEAN), g \in GarbageCpus :
              \/ \E t \in cpumask_test_cpu_read(g, cpus) :
                 \E wa_cpu \in (IF affine_wanted(w, t)
                                THEN Ask(wa_ans, wake_affine_idle_range)
                                ELSE {nr_cpumask_bits}) :
                 \E s \in (IF idle_found(wa_cpu)
                           THEN Ask(sis_ans, select_idle_sibling_range)
                           ELSE {0}) :
                   LET wanted == affine_wanted(w, t)
                       asked  == <<"record_wakee", "wake_wide">>
                                 \o (IF wanted THEN <<"wake_affine_idle">> ELSE << >>)
                   IN  /\ wide_ans' = {w}
                       /\ want_affine' = wanted
                       /\ wa_ans' = (IF wanted THEN {wa_cpu} ELSE wa_ans)
                       /\ IF idle_found(wa_cpu)
                          THEN /\ sis_ans' = {s}
                               /\ calls' = calls \o asked \o <<"select_idle_sibling">>
                               /\ ret' = s
                               /\ pc' = "done"
                          ELSE /\ sis_ans' = sis_ans
                               /\ calls' = calls \o asked
                               /\ ret' = ret
                               /\ pc' = "taskload"
              \/ /\ ~w
                 /\ cpumask_test_cpu_faults(g)
                 /\ wide_ans' = {w}
                 /\ calls' = calls \o <<"record_wakee", "wake_wide">>
                 /\ pc' = "fault"
                 /\ UNCHANGED <<want_affine, wa_ans, sis_ans, ret>>
       ELSE /\ pc' = "taskload"
            /\ UNCHANGED <<wide_ans, wa_ans, sis_ans, want_affine, calls, ret>>
    /\ UNCHANGED <<world, round, args, exiting_ans, queued_ans, p_load_ans,
                   cur_load_ans, sync, p_queued, cidx, cpu, p_load, cpus,
                   cands, best, reads, first_ret, conc>>

\* lines 85-93
TaskLoad ==
    /\ pc = "taskload"
    /\ IF not_fork(sd_flag, wake_flags)
       THEN \E l \in Ask(p_load_ans, Loads) :
              /\ p_load_ans' = {l}
              /\ p_load' = l
              /\ calls' = calls \o <<"sync_entity_load_avg", "task_h_load(p)">>
       ELSE UNCHANGED <<p_load_ans, p_load, calls>>
    /\ sync' = sync_and(sync, want_affine)
    /\ pc' = "loop"
    /\ UNCHANGED <<world, round, args, exiting_ans, queued_ans, wide_ans, wa_ans,
                   sis_ans, cur_load_ans, p_queued, want_affine, cidx, cpu,
                   cpus, cands, best, reads, ret, first_ret, conc>>

\* lines 103-138: one iteration of for_each_cpu(cpu, &cpus)
LoopIter ==
    /\ pc = "loop"
    /\ LET c == cpumask_next(cpu, cpus)
       IN  /\ c < nr_cpumask_bits
           /\ \E base \in Ask(load_avg[c], Loads),
                 wl \in (IF sync /\ c = this_cpu THEN Ask(cur_load_ans, Loads)
                                                 ELSE {0}) :
                LET load == projected_load(c, base, sync, p_queued,
                                           p_load, prev_cpu, this_cpu, wl)
                    curr == cidx
                    waker == sync /\ c = this_cpu
                IN  /\ load_avg' = [load_avg EXCEPT ![c] = {base}]
                    /\ cur_load_ans' = (IF waker THEN {wl} ELSE cur_load_ans)
                    /\ calls' = (IF waker THEN calls \o <<"task_h_load(current)">>
                                          ELSE calls)
                    /\ cands' = [cands EXCEPT
                                  ![curr] = [set |-> TRUE, cpu |-> c, load |-> load]]
                    /\ IF cand_better(best, curr, load, cands[best].load)
                       THEN best' = curr /\ cidx' = cidx_xor1(cidx)
                       ELSE UNCHANGED <<best, cidx>>
           /\ cpu' = c
           /\ reads' = Append(reads, c)
    /\ UNCHANGED <<cpu_lp_mask, cpu_perf_mask, online, pc, round, args, exiting_ans, queued_ans, wide_ans,
                   wa_ans, sis_ans, p_load_ans, sync, p_queued, want_affine,
                   p_load, cpus, ret, first_ret, conc>>

\* line 140: return best->cpu, whatever the slot holds if it was never written
Return ==
    /\ pc = "loop"
    /\ cpumask_next(cpu, cpus) >= nr_cpumask_bits
    /\ ret' \in (IF cands[best].set THEN {cands[best].cpu} ELSE GarbageCpus)
    /\ pc' = "done"
    /\ UNCHANGED <<world, round, args, answers, locals, calls, reads, first_ret, conc>>

\* the same call is made again: same arguments, same system state
Again ==
    /\ pc = "done"
    /\ round = 1
    /\ round' = 2
    /\ first_ret' = ret
    /\ UNCHANGED <<world, args, wide_ans, wa_ans, sis_ans, p_load_ans,
                   cur_load_ans, ret, conc>>
    /\ Entry

Next ==
    \/ Call
    \/ Partition
    \/ FastPath
    \/ TaskLoad
    \/ LoopIter
    \/ Return

\* one call
Spec == Init /\ [][Next]_vars

\* one call, then the same call once more
NextTwice == Next \/ Again
SpecTwice == Init /\ [][NextTwice]_vars

\* lines 45-93 for a task-creation call on CPU th: the declarations, the
\* tier partition, the wakeup block skipped, no task load taken, sync cleared
ConcEnter(t) ==
    /\ pc = "idle"
    /\ conc[t].pc = "idle"
    /\ ~is_wakeup(ForkCall[1], ForkCall[2])
    /\ ~not_fork(ForkCall[1], ForkCall[2])
    /\ \E a \in ConcAdj, th \in online, q \in BOOLEAN :
         /\ conc[OtherCaller(t)].pc # "idle" =>
              IF t < OtherCaller(t) THEN th < conc[OtherCaller(t)].this_cpu
                                    ELSE th > conc[OtherCaller(t)].this_cpu
         /\ conc' = [conc EXCEPT ![t] =
                       [IdleCaller EXCEPT
                          !.pc = "loop", !.this_cpu = th, !.prev_cpu = th,
                          !.adj = a, !.p_queued = q,
                          !.sync = sync_and(And(ForkCall[2], wf_SYNC), FALSE),
                          !.cpus = tier_cpus(a, online),
                          !.overlapped = (conc[OtherCaller(t)].pc = "loop")]]
    /\ UNCHANGED <<world, pc, round, args, answers, locals, calls, reads, ret,
                   first_ret>>

\* lines 103-138: one iteration of the loop of invocation t; the load of the
\* CPU is read with no lock held
ConcLoopIter(t) ==
    /\ conc[t].pc = "loop"
    /\ LET me == conc[t]
           c == cpumask_next(me.cpu, me.cpus)
       IN  /\ c < nr_cpumask_bits
           /\ \E base \in Ask(load_avg[c], Loads) :
                LET load == projected_load(c, base, me.sync, me.p_queued,
                                           me.p_load, me.prev_cpu, me.this_cpu, 0)
                    curr == me.cidx
                    better == cand_better(me.best, curr, load,
                                          me.cands[me.best].load)
                IN  /\ load_avg' = [load_avg EXCEPT ![c] = {base}]
                    /\ conc' = [conc EXCEPT ![t] =
                                  [me EXCEPT
                                     !.cpu = c,
                                     !.cands = [me.cands EXCEPT ![curr] =
                                                  [set |-> TRUE, cpu |-> c,
                                                   load |-> load]],
                                     !.best = IF better THEN curr ELSE me.best,
                                     !.cidx = IF better THEN cidx_xor1(me.cidx)
                                                        ELSE me.cidx]]
    /\ UNCHANGED <<cpu_lp_mask, cpu_perf_mask, online, pc, round, args, answers,
                   locals, calls, reads, ret, first_ret>>

\* line 140 of invocation t
ConcReturn(t) ==
    /\ conc[t].pc = "loop"
    /\ cpumask_next(conc[t].cpu, conc[t].cpus) >= nr_cpumask_bits
    /\ \E r \in (IF conc[t].cands[conc[t].best].set
                 THEN {conc[t].cands[conc[t].best].cpu} ELSE GarbageCpus) :
         conc' = [conc EXCEPT ![t] = [conc[t] EXCEPT !.pc = "done", !.ret = r]]
    /\ UNCHANGED <<world, pc, round, args, answers, locals, calls, reads, ret,
                   first_ret>>

NextConc ==
    \/ \E t \in Callers : ConcEnter(t)
    \/ \E t \in Callers : ConcLoopIter(t)
    \/ \E t \in Callers : ConcReturn(t)

\* two task-creation calls interleaved step by step
SpecConc == Init /\ [][NextConc]_vars

\* ------------------------------------------------------------ claims ----
Called(f) == \E i \in 1 .. Len(calls) : calls[i] = f
Returned == pc = "done"
IdlePath == Returned /\ Called("select_idle_sibling")
LoadPath == Returned /\ ~Called("select_idle_sibling")
\* the call has computed its candidate universe
Partitioned == pc \in {"fastpath", "taskload", "loop", "done"}

\* the projected load of candidate c as the loop computed it, from the
\* loads and answers the call has read
Projected(c) ==
    projected_load(c, The(load_avg[c]), sync, p_queued, p_load, prev_cpu,
                   this_cpu, IF cur_load_ans = {} THEN 0 ELSE The(cur_load_ans))

\* C1: whatever the task state, flags, loads and answers, the CPU id the
\* call returns is online, on the load path and on the idle fast path.
\* The idle fast path returns select_idle_sibling's answer as it is.
C1_ReturnsOnline == Returned => ret \in online

\* C2: the candidate universe is online /\ performance tier for a hint in
\* 0..224 and online /\ efficiency tier otherwise, and the whole online set
\* when that intersection is empty.
C2_Universe ==
    Partitioned =>
        LET tier == IF adj \in 0 .. 224 THEN cpu_perf_mask ELSE cpu_lp_mask
        IN  /\ (online \cap tier # {} => cpus = online \cap tier)
            /\ (online \cap tier = {} => cpus = online)

\* C2 witness: hint 224 narrows an online set that has CPUs of both tiers
C2_Witness ==
    /\ Partitioned /\ adj = 224
    /\ cpus = online \cap cpu_perf_mask /\ cpus # online /\ cpus # {}

\* C3: when the idle fast path did not return, the loop runs over a
\* non-empty candidate set, the best slot was written before the return,
\* and the returned CPU is a member of the candidate universe.
C3_LoadPathInUniverse ==
    /\ pc = "loop" => cpus # {}
    /\ LoadPath => /\ cands[best].set
                   /\ ret = cands[best].cpu
                   /\ ret \in cpus

\* C3 witness: a load-path return after the fallback to the online set
C3_Witness ==
    /\ LoadPath /\ online \cap asym_cpus(adj) = {} /\ cpus = online
    /\ online # AllCpus /\ ret \in cpus

\* C4: when wake_affine_idle answers a CPU the call returns the answer of
\* select_idle_sibling, and it has refreshed no task load, read no CPU
\* load and written no candidate; the loads play no part in the result.
C4_IdleShortCircuit ==
    (Called("wake_affine_idle") /\ The(wa_ans) # nr_cpumask_bits
        /\ pc \in {"taskload", "loop", "done"}) =>
        /\ pc = "done"
        /\ ret = The(sis_ans)
        /\ calls = <<"record_wakee", "wake_wide", "wake_affine_idle",
                     "select_idle_sibling">>
        /\ reads = << >>
        /\ \A i \in {0, 1} : ~cands[i].set

\* C4 witness: the fast path returned in the first call, no load known
C4_Witness ==
    /\ IdlePath /\ round = 1 /\ ret = The(sis_ans)
    /\ \A c \in AllCpus : load_avg[c] = {}

\* C5: on the load path the returned CPU has the least projected load of
\* all candidates, and it is the highest CPU id among those that have it.
C5_MinLoadLastWins ==
    LoadPath =>
        \A c \in cpus :
            /\ Projected(ret) <= Projected(c)
            /\ (Projected(c) = Projected(ret) => c <= ret)

\* C5 witness: three candidates, the first two tie at the minimum and the
\* third is worse
C5_Witness ==
    /\ LoadPath /\ cpus = AllCpus /\ ret = 1
    /\ Projected(0) = Projected(1) /\ Projected(2) > Projected(1)

\* C6: two calls with the same task state, previous CPU, waking CPU,
\* flags, masks, answers and loads return the same CPU id.
C6_SameInputsSameResult == (Returned /\ round = 2) => ret = first_ret

\* C7: in synchronous mode the projected load of a candidate is never
\* negative and never wraps: it lies between zero and the base load plus
\* the task's load, and is zero when the waker's load exceeds that sum.
C7_SaturatingSub ==
    \A i \in {0, 1} :
        (cands[i].set /\ sync /\ pc \in {"loop", "done"}) =>
            LET c == cands[i].cpu
                added == The(load_avg[c]) + (IF c # prev_cpu THEN p_load ELSE 0)
            IN  /\ cands[i].load >= 0
                /\ cands[i].load <= added
                /\ (c = this_cpu /\ The(cur_load_ans) >= added) => cands[i].load = 0
                /\ (c = this_cpu /\ The(cur_load_ans) < added) =>
                       cands[i].load = added - The(cur_load_ans)

\* C7 witness: the waker's load exceeds what the waking CPU carries
C7_Witness ==
    \E i \in {0, 1} :
        /\ cands[i].set /\ sync /\ pc = "loop" /\ cands[i].cpu = this_cpu
        /\ The(cur_load_ans) > The(load_avg[this_cpu])
                                + (IF this_cpu # prev_cpu THEN p_load ELSE 0)
        /\ cands[i].load = 0

\* C8: a call that is not a task creation calls sync_entity_load_avg
\* before it reads task_h_load(p); a task-creation call (SD_BALANCE_FORK or
\* WF_FORK set) calls neither, the task's load is zero and every projected
\* load is the CPU's base load.  The last part fails when a call with
\* SD_BALANCE_WAKE, WF_SYNC and WF_FORK stays synchronous.
C8_RefreshBeforeLoad ==
    LET fork == And(sd_flag, SD_BALANCE_FORK) \/ And(wake_flags, wf_FORK)
    IN  /\ \A j \in 1 .. Len(calls) :
              calls[j] = "task_h_load(p)" =>
                  (j > 1 /\ calls[j - 1] = "sync_entity_load_avg")
        /\ (pc \in {"loop", "done"} /\ ~IdlePath /\ ~fork) =>
              /\ Called("sync_entity_load_avg") /\ Called("task_h_load(p)")
              /\ p_load = The(p_load_ans)
        /\ (pc \in {"partition", "fastpath", "taskload", "loop", "done"} /\ fork) =>
              /\ ~Called("sync_entity_load_avg") /\ ~Called("task_h_load(p)")
              /\ p_load = 0
              /\ \A i \in {0, 1} :
                    cands[i].set => cands[i].load = The(load_avg[cands[i].cpu])

\* C9: the fast path is wanted only if wake_wide answered no and the waking
\* CPU is in the candidate universe; wake_affine_idle is never called for
\* a waking CPU outside the universe.
C9_AffineNeedsWakingCpu ==
    /\ want_affine => (The(wide_ans) = FALSE /\ this_cpu \in cpus)
    /\ Called("wake_affine_idle") => this_cpu \in cpus

C11_SyncProjection ==
    \A i \in {0, 1} :
        (cands[i].set /\ sync /\ pc \in {"loop", "done"}) =>
            LET c == cands[i].cpu
                plus == IF c # prev_cpu THEN p_load ELSE 0
                minus == IF c = this_cpu THEN The(cur_load_ans) ELSE 0
                sum == The(load_avg[c]) + plus - minus
            IN  cands[i].load = (IF sum < 0 THEN 0 ELSE sum)

\* C11 witness: the waking CPU, not the previous one, gains the task's load
\* and loses the waker's, while the previous CPU keeps its base load, for
\* a queued task
C11_Witness ==
    /\ sync /\ pc = "loop" /\ p_queued /\ p_load > 0
    /\ this_cpu # prev_cpu
    /\ \E i, j \in {0, 1} :
          /\ cands[i].set /\ cands[i].cpu = this_cpu
          /\ The(cur_load_ans) > 0
          /\ cands[i].load = The(load_avg[this_cpu]) + p_load - The(cur_load_ans)
          /\ cands[j].set /\ cands[j].cpu = prev_cpu
          /\ cands[j].load = The(load_avg[prev_cpu])

\* C12: outside synchronous mode a task that is not queued adds its load to
\* every candidate; a queued task adds it to every candidate but its
\* previous CPU, which keeps its base load.  The load is added once.
C12_AsyncProjection ==
    \A i \in {0, 1} :
        (cands[i].set /\ ~sync /\ pc \in {"loop", "done"}) =>
            LET c == cands[i].cpu
                base == The(load_avg[c])
            IN  /\ ~p_queued => cands[i].load = base + p_load
                /\ (p_queued /\ c # prev_cpu) => cands[i].load = base + p_load
                /\ (p_queued /\ c = prev_cpu) => cands[i].load = base

\* C12 witness: a task that is not queued adds its load on its previous CPU
C12_Witness ==
    /\ ~sync /\ pc = "loop" /\ ~p_queued /\ p_load > 0
    /\ \E i \in {0, 1} :
          /\ cands[i].set /\ cands[i].cpu = prev_cpu
          /\ cands[i].load = The(load_avg[prev_cpu]) + p_load

\* C13: record_wakee, wake_wide and wake_affine_idle are called only on a
\* wakeup call (SD_BALANCE_WAKE) and never on a call with a fork flag; when
\* they are, record_wakee is called once, first, before wake_wide.  Line 66
\* tests no fork flag, so the second part fails.
C13_FastPathOnlyOnWakeup ==
    (Called("record_wakee") \/ Called("wake_wide") \/ Called("wake_affine_idle")) =>
        /\ And(sd_flag, SD_BALANCE_WAKE)
        /\ ~And(sd_flag, SD_BALANCE_FORK) /\ ~And(wake_flags, wf_FORK)
        /\ Len(calls) >= 2
        /\ calls[1] = "record_wakee" /\ calls[2] = "wake_wide"
        /\ \A i \in 1 .. Len(calls) : calls[i] = "record_wakee" => i = 1
        /\ \A i \in 1 .. Len(calls) : calls[i] = "wake_affine_idle" => i = 3

\* C14: when the fast path is not attempted, not wanted, or answered with
\* nr_cpumask_bits, select_idle_sibling is not called, the call goes on to
\* the loop and returns the CPU the loop chose, never the sentinel.
C14_SentinelContinues ==
    /\ pc \in {"taskload", "loop"} => ~Called("select_idle_sibling")
    /\ (Returned /\ (\/ ~is_wakeup(sd_flag, wake_flags)
                      \/ ~want_affine
                      \/ The(wa_ans) = nr_cpumask_bits)) =>
           /\ ~Called("select_idle_sibling")
           /\ reads # << >>
           /\ cands[best].set /\ ret = cands[best].cpu
           /\ ret \in cpus /\ ret # nr_cpumask_bits

\* C14 witness: wake_affine_idle answered the sentinel and the loop chose
C14_Witness ==
    /\ Returned /\ want_affine /\ The(wa_ans) = nr_cpumask_bits
    /\ Called("wake_affine_idle") /\ ~Called("select_idle_sibling")
    /\ Cardinality(cpus) > 1 /\ ret \in cpus

\* the reduction with two plain values: the best pair so far and the
\* current candidate, over the CPUs of seq in order
RECURSIVE PlainBest(_)
PlainBest(seq) ==
    IF Len(seq) = 1
    THEN [cpu |-> seq[1], load |-> Projected(seq[1])]
    ELSE LET b == PlainBest(SubSeq(seq, 1, Len(seq) - 1))
             c == seq[Len(seq)]
         IN  IF Projected(c) <= b.load
             THEN [cpu |-> c, load |-> Projected(c)]
             ELSE b

\* C15: the two-slot buffer gives what a reduction with two plain values
\* gives: after every iteration the slot to be written next is not the one
\* best points to, the best slot holds the plain reduction's pair, and the
\* call returns the plain reduction's CPU.
C15_TwoSlotsArePlainReduction ==
    /\ (pc \in {"loop", "done"} /\ reads # << >>) =>
           /\ cidx # best
           /\ cands[best].set
           /\ cands[best].cpu = PlainBest(reads).cpu
           /\ cands[best].load = PlainBest(reads).load
    /\ LoadPath => ret = PlainBest(reads).cpu

\* C15 witness: the first candidate stays best while the other slot is
\* written twice by candidates that lose
C15_Witness ==
    /\ LoadPath /\ reads = <<0, 1, 2>> /\ ret = 0
    /\ Projected(1) > Projected(0) /\ Projected(2) > Projected(0)
    /\ cands[best].cpu = 0 /\ cands[1 - best].cpu = 2

\* the loop has read the loads of the candidates up to cpu, each once, in
\* ascending order, and of all candidates when the loop is over
SinglePass ==
    /\ \A i \in 1 .. Len(reads) : reads[i] \in cpus
    /\ \A i, j \in 1 .. Len(reads) : i < j => reads[i] < reads[j]
    /\ pc = "loop" => {reads[i] : i \in 1 .. Len(reads)} = {c \in cpus : c <= cpu}
    /\ LoadPath => /\ {reads[i] : i \in 1 .. Len(reads)} = cpus
                   /\ Len(reads) = Cardinality(cpus)

\* C17: a call writes only its own working state: no step of it changes the
\* online set or the tier masks, a CPU load or the queued flag once read,
\* or, once the call has started, the task's hint and previous CPU; and so
\* the result of a call does not depend on a call made before it: the call
\* made after another gives what it gave when nothing was called before.
\* The frame holds; the conclusion fails through the read of line 72.
C17_CallWritesOnlyLocals ==
    /\ [][/\ cpu_lp_mask' = cpu_lp_mask
          /\ cpu_perf_mask' = cpu_perf_mask
          /\ online' = online
          /\ \A c \in AllCpus : load_avg[c] # {} => load_avg'[c] = load_avg[c]
          /\ queued_ans # {} => queued_ans' = queued_ans
          /\ pc # "idle" => (adj' = adj /\ prev_cpu' = prev_cpu)]_vars
    /\ []((round = 2 /\ pc = "done") => ret = first_ret)

\* the number of steps the call can still take before it is over
StepsLeft ==
    CASE pc = "idle" -> NrCpus + 5
      [] pc = "partition" -> NrCpus + 4
      [] pc = "fastpath" -> NrCpus + 3
      [] pc = "taskload" -> NrCpus + 2
      [] pc = "loop" -> 1 + Cardinality({c \in cpus : c > cpu})
      [] pc = "done" -> 0
      [] pc = "fault" -> 0

\* C18: every call returns: a call that has not returned can always take
\* its next step (nothing waits or retries) and every step brings the
\* return nearer; the loop visits each CPU of the candidate universe
\* exactly once, in ascending order, reading its load once.  The second
\* part fails for a call that faults at line 72.
C18_TerminatesSinglePass ==
    /\ []SinglePass
    /\ [](~Returned => ENABLED Next)
    /\ [][StepsLeft' < StepsLeft]_vars

\* the load invocation t projects for CPU c from the shared per-CPU load
ConcProjected(t, c) ==
    projected_load(c, The(load_avg[c]), conc[t].sync, conc[t].p_queued,
                   conc[t].p_load, conc[t].prev_cpu, conc[t].this_cpu, 0)

\* invocation t returned the least-loaded CPU of its universe, the highest
\* CPU id among equals
ConcLeastLoaded(t) ==
    /\ conc[t].ret \in conc[t].cpus
    /\ \A c \in conc[t].cpus :
         /\ ConcProjected(t, conc[t].ret) <= ConcProjected(t, c)
         /\ ConcProjected(t, conc[t].ret) = ConcProjected(t, c) => c <= conc[t].ret

\* C16: calls running at once on different CPUs read the shared loads with
\* no lock: an invocation inside its loop can always take its next step
\* whatever the other is doing, each returns the least-loaded CPU of its own
\* universe, and so two calls over the same universe both return the same CPU
C16_ConcurrentCallsSameCpu ==
    /\ \A t \in Callers :
         conc[t].pc = "loop" => ENABLED (ConcLoopIter(t) \/ ConcReturn(t))
    /\ \A t \in Callers : conc[t].pc = "done" => ConcLeastLoaded(t)
    /\ (/\ \A t \in Callers : conc[t].pc = "done"
        /\ conc[1].cpus = conc[2].cpus) => conc[1].ret = conc[2].ret

\* both calls, entered on different CPUs and overlapping in time, have named
\* the same CPU out of several candidates
C16_Witness ==
    /\ \A t \in Callers : conc[t].pc = "done"
    /\ conc[1].this_cpu # conc[2].this_cpu
    /\ \E t \in Callers : conc[t].overlapped
    /\ conc[1].ret = conc[2].ret
    /\ Cardinality(conc[1].cpus) > 1
    /\ \E c \in conc[1].cpus :
         ConcProjected(1, conc[1].ret) < ConcProjected(1, c)
====
